---- MODULE Spec2Model ----
(***************************************************************************)
(* Model of app.py: the /check handler (check_all_webapps), the thread     *)
(* pool that runs check_single_webapp once per roster record, the prober   *)
(* check_endpoint and the extractor extract_git_info.                      *)
(*                                                                         *)
(* Python values are tagged records: None, bool, int, str and dict, so     *)
(* that values of different Python types can be compared.  A python dict   *)
(* with string keys is a TLA+ function on its keys.                        *)
(***************************************************************************)
EXTENDS Bags, FiniteSets, Integers, Sequences, TLC

\* ------------------------------------------------------------------ bounds
\* longest roster of the sweep specification
MaxRoster == 3
\* how many records more than the pool has workers, in the pool specification
PoolExtra == 1
\* longest roster of the fair specification
MaxFairRoster == 2

\* ------------------------------------------------------- program constants
\* ThreadPoolExecutor(max_workers=10)
max_workers == 10
\* the slice [:8] of the commit id
CommitLen == 8
\* the one status code that check_endpoint treats as success
HTTP_OK == 200

\* time.strftime('%Y-%m-%d %H:%M:%S') at the one moment of the model
Clock == "2024-05-01 12:00:00"

\* ------------------------------------------------------------ python values
None == [t |-> "null"]
Bool(b) == [t |-> "bool", b |-> b]
Num(n) == [t |-> "num", n |-> n]
Str(s) == [t |-> "str", s |-> s]
Dict(m) == [t |-> "map", m |-> m]
EmptyDict == Dict(<<>>)

\* isinstance(v, dict)
IsDict(v) == v.t = "map"

\* Python truth value of v, as used by `if v` and `a and b`
Truthy(v) ==
  CASE v.t = "null" -> FALSE
    [] v.t = "bool" -> v.b
    [] v.t = "num" -> v.n # 0
    [] v.t = "str" -> v.s # ""
    [] v.t = "map" -> DOMAIN v.m # {}

\* type(v).__name__, as it appears in the messages of AttributeError/TypeError
TypeName(v) ==
  CASE v.t = "null" -> "NoneType"
    [] v.t = "bool" -> "bool"
    [] v.t = "num" -> "int"
    [] v.t = "str" -> "str"
    [] v.t = "map" -> "dict"

\* d.get(key, default) on a dict d
Get(d, key, default) == IF key \in DOMAIN d.m THEN d.m[key] ELSE default

\* d[key] = value on a python dict held as a function
SetItem(m, key, value) == (key :> value) @@ m

\* the outcome of evaluating an expression: a value, or a raised exception
Returned(v) == [raised |-> FALSE, value |-> v, msg |-> ""]
Raised(msg) == [raised |-> TRUE, value |-> None, msg |-> msg]

\* ------------------------------------------------- the outcome of requests.get
\* What one GET can come back with: an HTTP response with a status code and
\* a body, or one of the exceptions check_endpoint tells apart.
\* A body is the text on the wire; `valid` says whether it is a JSON document
\* and `value` is the document it decodes to.
JsonBody(v) == [valid |-> TRUE, value |-> v, text |-> "<json document>"]
TextBody(s) == [valid |-> FALSE, value |-> None, text |-> s]

HttpResponse(code, body) == [k |-> "response", status_code |-> code, body |-> body, msg |-> ""]
TimeoutExc == [k |-> "Timeout", status_code |-> 0, body |-> TextBody(""), msg |-> "timed out"]
ConnectionExc == [k |-> "ConnectionError", status_code |-> 0, body |-> TextBody(""), msg |-> "connection refused"]
OtherExc(msg) == [k |-> "Exception", status_code |-> 0, body |-> TextBody(""), msg |-> msg]

\* requests.get('') raises MissingSchema, which is a RequestException and a
\* ValueError but neither a Timeout nor a ConnectionError
MissingSchemaMsg == "Invalid URL '': No scheme supplied. Perhaps you meant https://?"
MissingSchemaExc == OtherExc(MissingSchemaMsg)
TooManyRedirectsExc == OtherExc("Exceeded 30 redirects.")

\* response.json(): the decoded document, or JSONDecodeError
ResponseJson(body) == IF body.valid THEN Returned(body.value) ELSE Raised("JSONDecodeError")

\* ------------------------------------------------------------ check_endpoint
ProbeOutcome(status_code, success, data, error) ==
  [status_code |-> status_code, success |-> success, data |-> data, error |-> error]

\* mutant: no except clause for Timeout, which falls to the catch-all
check_endpoint_without_timeout(resp) ==
  IF resp.k = "response"
  THEN IF resp.status_code = HTTP_OK
       THEN LET decoded == ResponseJson(resp.body)
            IN IF ~decoded.raised
               THEN ProbeOutcome(Num(resp.status_code), TRUE, decoded.value, None)
               ELSE ProbeOutcome(Num(resp.status_code), TRUE, Str(resp.body.text), None)
       ELSE ProbeOutcome(Num(resp.status_code), FALSE, None,
                         Str("HTTP " \o ToString(resp.status_code)))
  ELSE IF resp.k = "ConnectionError"
  THEN ProbeOutcome(None, FALSE, None, Str("Connection Error"))
  ELSE ProbeOutcome(None, FALSE, None, Str(resp.msg))

\* mutant: 204 No Content counts as a success too
check_endpoint_any_2xx(resp) ==
  IF resp.k = "response"
  THEN IF resp.status_code \in {HTTP_OK, 204}
       THEN LET decoded == ResponseJson(resp.body)
            IN IF ~decoded.raised
               THEN ProbeOutcome(Num(resp.status_code), TRUE, decoded.value, None)
               ELSE ProbeOutcome(Num(resp.status_code), TRUE, Str(resp.body.text), None)
       ELSE ProbeOutcome(Num(resp.status_code), FALSE, None,
                         Str("HTTP " \o ToString(resp.status_code)))
  ELSE IF resp.k = "Timeout"
  THEN ProbeOutcome(None, FALSE, None, Str("Timeout"))
  ELSE IF resp.k = "ConnectionError"
  THEN ProbeOutcome(None, FALSE, None, Str("Connection Error"))
  ELSE ProbeOutcome(None, FALSE, None, Str(resp.msg))

\* mutant: the text of a response other than 200 is kept as the body
check_endpoint_keeps_body(resp) ==
  IF resp.k = "response"
  THEN IF resp.status_code = HTTP_OK
       THEN LET decoded == ResponseJson(resp.body)
            IN IF ~decoded.raised
               THEN ProbeOutcome(Num(resp.status_code), TRUE, decoded.value, None)
               ELSE ProbeOutcome(Num(resp.status_code), TRUE, Str(resp.body.text), None)
       ELSE ProbeOutcome(Num(resp.status_code), FALSE, Str(resp.body.text),
                         Str("HTTP " \o ToString(resp.status_code)))
  ELSE IF resp.k = "Timeout"
  THEN ProbeOutcome(None, FALSE, None, Str("Timeout"))
  ELSE IF resp.k = "ConnectionError"
  THEN ProbeOutcome(None, FALSE, None, Str("Connection Error"))
  ELSE ProbeOutcome(None, FALSE, None, Str(resp.msg))

check_endpoint(resp) ==
  IF resp.k = "response"
  THEN IF resp.status_code = HTTP_OK
       THEN LET decoded == ResponseJson(resp.body)
            IN IF ~decoded.raised
               THEN ProbeOutcome(Num(resp.status_code), TRUE, decoded.value, None)
               ELSE ProbeOutcome(Num(resp.status_code), TRUE, Str(resp.body.text), None)
       ELSE ProbeOutcome(Num(resp.status_code), FALSE, None,
                         Str("HTTP " \o ToString(resp.status_code)))
  ELSE IF resp.k = "Timeout"
  THEN ProbeOutcome(None, FALSE, None, Str("Timeout"))
  ELSE IF resp.k = "ConnectionError"
  THEN ProbeOutcome(None, FALSE, None, Str("Connection Error"))
  ELSE ProbeOutcome(None, FALSE, None, Str(resp.msg))

\* ---------------------------------------------------------- extract_git_info
\* git_data.get('commit', {}).get('id', 'N/A')[:8] if git_data.get('commit') else 'N/A'
\* .get on a value that is not a dict raises AttributeError; [:8] on a value
\* that is neither a str nor a sequence raises TypeError.
CommitOf(git_data) ==
  IF Truthy(Get(git_data, "commit", None))
  THEN LET commit == Get(git_data, "commit", EmptyDict)
       IN IF ~IsDict(commit)
          THEN Raised("'" \o TypeName(commit) \o "' object has no attribute 'get'")
          ELSE LET id == Get(commit, "id", Str("N/A"))
               IN IF id.t = "str"
                  THEN Returned(Str(SubSeq(id.s, 1, IF Len(id.s) < CommitLen THEN Len(id.s) ELSE CommitLen)))
                  ELSE Raised("'" \o TypeName(id) \o "' object is not subscriptable")
  ELSE Returned(Str("N/A"))

\* mutant: a body that is not a dict gets the defaults
extract_git_info_with_defaults(info_data) ==
  IF ~IsDict(info_data)
  THEN Returned([branch |-> Str("N/A"), commit |-> Str("N/A"), java_version |-> Str("N/A")])
  ELSE LET git_data == Get(info_data, "git", EmptyDict)
           build_info == Get(info_data, "build", EmptyDict)
           commit == IF IsDict(git_data) THEN CommitOf(git_data) ELSE Returned(None)
           with_git == IF IsDict(git_data)
                       THEN SetItem(SetItem(<<>>, "branch", Get(git_data, "branch", Str("N/A"))),
                                    "commit", commit.value)
                       ELSE <<>>
           with_build == IF IsDict(build_info)
                         THEN SetItem(with_git, "java_version", Get(build_info, "version", Str("N/A")))
                         ELSE with_git
       IN IF commit.raised THEN Raised(commit.msg) ELSE Returned(with_build)

extract_git_info(info_data) ==
  IF ~IsDict(info_data)
  THEN Returned(<<>>)
  ELSE LET git_data == Get(info_data, "git", EmptyDict)
           build_info == Get(info_data, "build", EmptyDict)
           commit == IF IsDict(git_data) THEN CommitOf(git_data) ELSE Returned(None)
           with_git == IF IsDict(git_data)
                       THEN SetItem(SetItem(<<>>, "branch", Get(git_data, "branch", Str("N/A"))),
                                    "commit", commit.value)
                       ELSE <<>>
           with_build == IF IsDict(build_info)
                         THEN SetItem(with_git, "java_version", Get(build_info, "version", Str("N/A")))
                         ELSE with_git
       IN IF commit.raised THEN Raised(commit.msg) ELSE Returned(with_build)

\* ------------------------------------------------------------- read_csv_data
\* s.strip() for the blanks of this model's strings
RECURSIVE LStrip(_)
LStrip(s) == IF Len(s) > 0 /\ SubSeq(s, 1, 1) = " " THEN LStrip(SubSeq(s, 2, Len(s))) ELSE s
RECURSIVE RStrip(_)
RStrip(s) == IF Len(s) > 0 /\ SubSeq(s, Len(s), Len(s)) = " " THEN RStrip(SubSeq(s, 1, Len(s) - 1)) ELSE s
Strip(s) == RStrip(LStrip(s))

\* one row of data.csv as csv.DictReader gives it
Row(webname, env, healthUrl, infoUrl, port, supportEmail) ==
  [webname |-> webname, env |-> env, healthUrl |-> healthUrl, infoUrl |-> infoUrl,
   port |-> port, supportEmail |-> supportEmail]

\* the webapp dict that read_csv_data builds from a row
WebappOf(row) ==
  [webname |-> Strip(row.webname), env |-> Strip(row.env), healthUrl |-> Strip(row.healthUrl),
   infoUrl |-> Strip(row.infoUrl), port |-> Strip(row.port), supportEmail |-> Strip(row.supportEmail)]

\* data.csv: missing (FileNotFoundError, caught: no webapps) or its rows
NoFile == [exists |-> FALSE, rows |-> <<>>]
CsvFile(rows) == [exists |-> TRUE, rows |-> rows]

read_csv_data(file) ==
  IF file.exists THEN [i \in 1..Len(file.rows) |-> WebappOf(file.rows[i])] ELSE <<>>

\* ------------------------------------------------------------------- state
VARIABLES
  world,           \* outside the program: data.csv, and what the probed servers may answer
  pc,              \* where check_all_webapps is: start, submit, as_completed, collect, done
  webapps,         \* webapps = read_csv_data()
  submitted,       \* how many executor.submit calls the dict comprehension has made
  work_queue,      \* the executor's queue: submitted tasks that no worker has taken
  running,         \* bag of the tasks the workers are executing
  finished,        \* bag of the futures that finished before as_completed was entered
  finished_futures,\* the as_completed waiter's list, in finishing order
  results,         \* results = []
  report,          \* what jsonify returns; the empty function until the handler returns
  get_calls,       \* history: how many requests.get calls were issued
  completed,       \* history: the futures in the order they finished
  pre_completed,   \* history: how many futures were finished when as_completed was entered
  last_get         \* history: the latest check_endpoint call: url, what the GET came back with, outcome, caller's result

vars == <<world, pc, webapps, submitted, work_queue, running, finished, finished_futures,
          results, report, get_calls, completed, pre_completed, last_get>>

\* one call of check_endpoint: its url, what the GET came back with, its outcome
Probed(url, resp) == [url |-> url, resp |-> resp, outcome |-> check_endpoint(resp)]

\* the same call as check_single_webapp makes it: with the result dict the
\* caller had built when it made the call
ProbedBy(task, url, resp) == [result |-> task.result] @@ Probed(url, resp)

\* ------------------------------------------------------- check_single_webapp
\* result = webapp.copy(), and the GET of webapp['healthUrl'] is in flight
\* mutant: the task starts with the GET of webapp['infoUrl']
BeginCheckInfoFirst(webapp) == [webapp |-> webapp, stage |-> "info", result |-> webapp]

BeginCheck(webapp) == [webapp |-> webapp, stage |-> "health", result |-> webapp]

\* mutant: result is the roster record itself, not a copy of it
AfterHealthNoCopy(task, resp) ==
  LET health_result == check_endpoint(resp)
      r1 == SetItem(task.result, "health_status", health_result.success)
      r2 == SetItem(r1, "health_error", health_result.error)
      r3 == SetItem(r2, "health_status_code", health_result.status_code)
  IN [task EXCEPT !.stage = "info", !.result = r3, !.webapp = r3]

\* the health GET came back with resp; the GET of webapp['infoUrl'] is in flight
AfterHealth(task, resp) ==
  LET health_result == check_endpoint(resp)
      r1 == SetItem(task.result, "health_status", health_result.success)
      r2 == SetItem(r1, "health_error", health_result.error)
      r3 == SetItem(r2, "health_status_code", health_result.status_code)
  IN [task EXCEPT !.stage = "info", !.result = r3]

\* a finished future: the dict the task returned, or the exception it raised
FutureOf(webapp, returned) ==
  [webapp |-> webapp,
   exception |-> IF returned.raised THEN Str(returned.msg) ELSE None,
   result |-> IF returned.raised THEN <<>> ELSE returned.value]

\* mutant: the extractor is called for every body that is not None
AfterInfoNotNone(task, resp) ==
  LET info_result == check_endpoint(resp)
      r1 == SetItem(task.result, "info_status", info_result.success)
      r2 == SetItem(r1, "info_error", info_result.error)
      r3 == SetItem(r2, "info_status_code", info_result.status_code)
      git_info == IF info_result.success /\ info_result.data # None
                  THEN extract_git_info(info_result.data)
                  ELSE Returned(<<>>)
  IN FutureOf(task.webapp,
              IF git_info.raised
              THEN Raised(git_info.msg)
              ELSE Returned(SetItem(r3, "git_info", git_info.value)))

\* mutant: the outcome of the info probe is written to health_status too
AfterInfoOverHealth(task, resp) ==
  LET info_result == check_endpoint(resp)
      r0 == SetItem(task.result, "health_status", info_result.success)
      r1 == SetItem(r0, "info_status", info_result.success)
      r2 == SetItem(r1, "info_error", info_result.error)
      r3 == SetItem(r2, "info_status_code", info_result.status_code)
      git_info == IF info_result.success /\ Truthy(info_result.data)
                  THEN extract_git_info(info_result.data)
                  ELSE Returned(<<>>)
  IN FutureOf(task.webapp,
              IF git_info.raised
              THEN Raised(git_info.msg)
              ELSE Returned(SetItem(r3, "git_info", git_info.value)))

\* the info GET came back with resp: the rest of check_single_webapp
AfterInfo(task, resp) ==
  LET info_result == check_endpoint(resp)
      r1 == SetItem(task.result, "info_status", info_result.success)
      r2 == SetItem(r1, "info_error", info_result.error)
      r3 == SetItem(r2, "info_status_code", info_result.status_code)
      git_info == IF info_result.success /\ Truthy(info_result.data)
                  THEN extract_git_info(info_result.data)
                  ELSE Returned(<<>>)
  IN FutureOf(task.webapp,
              IF git_info.raised
              THEN Raised(git_info.msg)
              ELSE Returned(SetItem(r3, "git_info", git_info.value)))

\* --------------------------------------------------------- check_all_webapps
\* mutant: the empty report stamped like a sweep's
EmptyReportStamped ==
  [success |-> FALSE, error |-> "No webapp data found", results |-> <<>>, timestamp |-> Clock]

\* the report of an empty roster
EmptyReport == [success |-> FALSE, error |-> "No webapp data found", results |-> <<>>]

\* mutant: a sweep counts as a success only if some service is up
SweepReportIfAnyUp(res, now) ==
  [success |-> \E i \in DOMAIN res : res[i].health_status, results |-> res, timestamp |-> now]

\* the report of a sweep
SweepReport(res, now) == [success |-> TRUE, results |-> res, timestamp |-> now]

\* mutant: the except branch looks up the first webapp, not the future's
future_to_first_webapp(future) == webapps[1]

\* future_to_webapp[future]
future_to_webapp(future) == future.webapp

\* mutant: the error fields carry the bare message
ErrorResultBare(webapp, e) ==
  [health_status |-> FALSE,
   health_error |-> Str(e),
   info_status |-> FALSE,
   info_error |-> Str(e),
   git_info |-> <<>>] @@ webapp

\* mutant: the except branch reports the service as up
ErrorResultStillUp(webapp, e) ==
  [health_status |-> TRUE,
   health_error |-> None,
   info_status |-> FALSE,
   info_error |-> Str("Check failed: " \o e),
   git_info |-> <<>>] @@ webapp

\* the except branch: the webapp of the faulted future with the error fields
ErrorResult(webapp, e) ==
  [health_status |-> FALSE,
   health_error |-> Str("Check failed: " \o e),
   info_status |-> FALSE,
   info_error |-> Str("Check failed: " \o e),
   git_info |-> <<>>] @@ webapp

\* mutant: the except branch appends nothing
CollectedUnlessFaulted(res, future) ==
  IF future.exception = None THEN Append(res, future.result) ELSE res

\* the body of the as_completed loop: results.append(...) for one future
Collected(res, future) ==
  IF future.exception = None
  THEN Append(res, future.result)
  ELSE Append(res, ErrorResult(future_to_webapp(future), future.exception.s))

\* mutant: one worker too many
WorkerFreeOffByOne(tasks) == BagCardinality(tasks) <= max_workers

\* a worker thread is free to take a task from the queue
WorkerFree(tasks) == BagCardinality(tasks) < max_workers

\* mutant: the handler returns as soon as no finished future is left to yield
NothingToYield ==
  /\ submitted = Len(webapps)
  /\ finished = EmptyBag
  /\ finished_futures = <<>>

\* mutant: the waiter's list is read from its newest end
PopNewest(waited) ==
  [future |-> waited[Len(waited)], rest |-> SubSeq(waited, 1, Len(waited) - 1)]

\* as_completed takes the futures of the waiter's list in finishing order
PopWaited(waited) == [future |-> Head(waited), rest |-> Tail(waited)]

\* every future was yielded and the pool is idle: the with block can end
NothingPending ==
  /\ submitted = Len(webapps)
  /\ work_queue = <<>>
  /\ running = EmptyBag
  /\ finished = EmptyBag
  /\ finished_futures = <<>>

One(x) == SetToBag({x})

\* ------------------------------------------------------------------ worlds
RowA == Row("svc-a", "dev", "http://a/health", "http://a/info", "8080", "a@example.org")
\* a row with blanks to strip and without a health URL
RowB == Row(" svc-b", "prod ", "", " http://b/info", "", "")

\* n copies of x
Copies(x, n) == [i \in 1..n |-> x]

\* the rosters of at most n rows made of a run of one row followed by a run
\* of another
Rosters(rows, n) ==
  {Copies(x, i) \o Copies(y, j) : <<x, y, i, j>> \in
     {t \in rows \X rows \X (0..n) \X (0..n) : t[3] + t[4] <= n}}

InfoDoc ==
  Dict([git |-> Dict([branch |-> Str("main"), commit |-> Dict([id |-> Str("abcdef1234567")])]),
        build |-> Dict([version |-> Str("1.2.0")])])
\* a document on which extract_git_info raises: git.commit is a string
BadCommitDoc == Dict([git |-> Dict([commit |-> Str("abc")])])

\* a world: data.csv, the kind of server behind each URL, the wall clock
World(file, net) == [file |-> file, net |-> net, now |-> Clock]

\* the URLs of the rows, stripped
Urls == {"http://a/health", "http://a/info", "http://b/info"}
AllServers(kind) == [url \in Urls |-> kind]

SweepWorlds ==
  {World(file, AllServers(kind)) :
     file \in {NoFile} \cup {CsvFile(rows) : rows \in Rosters({RowA, RowB}, MaxRoster)},
     kind \in {"up", "faulty", "text"}}

\* ------------------------------------------- the documents a server may send
IdValues ==
  {None, Str(""), Str("abc"), Str("abcdef12"), Str("abcdef1234567"), Num(7), Bool(TRUE)}
CommitValues ==
  {None, Str(""), EmptyDict, Num(0), Bool(FALSE), Str("abc"), Num(5), Bool(TRUE),
   Dict([message |-> Str("fix")])}
    \cup {Dict([id |-> v]) : v \in IdValues}
BranchValues == {Str("main"), None}
GitDicts ==
  {EmptyDict}
    \cup {Dict([branch |-> b]) : b \in BranchValues}
    \cup {Dict([commit |-> c]) : c \in CommitValues}
    \cup {Dict([branch |-> b, commit |-> c]) : b \in BranchValues, c \in CommitValues}
GitValues == {None, Str("main"), Num(1)} \cup GitDicts
BuildValues ==
  {None, Str("1.2.0"), EmptyDict, Dict([version |-> Str("1.2.0")]), Dict([version |-> None])}
Scalars == {None, Bool(FALSE), Bool(TRUE), Num(0), Num(3), Str(""), Str("OK")}
Documents ==
  Scalars
    \cup {EmptyDict, Dict([status |-> Str("UP")])}
    \cup {Dict([git |-> g]) : g \in GitValues}
    \cup {Dict([build |-> b]) : b \in BuildValues}
    \cup {Dict([git |-> g, build |-> b]) : g \in GitValues, b \in BuildValues}

StatusCodes == {200, 204, 404, 500}

\* every answer of the model
AllResponses ==
  {HttpResponse(code, JsonBody(doc)) : code \in {200, 500}, doc \in Documents}
    \cup {HttpResponse(code, TextBody(text)) : code \in StatusCodes, text \in {"", "OK"}}
    \cup {TimeoutExc, ConnectionExc, TooManyRedirectsExc}

\* the answers without the documents
PlainResponses ==
  {HttpResponse(code, TextBody(text)) : code \in StatusCodes, text \in {"", "OK"}}
    \cup {HttpResponse(200, JsonBody(Dict([status |-> Str("UP")]))),
          TimeoutExc, ConnectionExc, TooManyRedirectsExc}

\* what a server of each kind may answer
Answers(kind) ==
  CASE kind = "up" -> {HttpResponse(200, JsonBody(InfoDoc)), TimeoutExc}
    [] kind = "faulty" -> {HttpResponse(200, JsonBody(BadCommitDoc)),
                          HttpResponse(404, TextBody("not found"))}
    [] kind = "text" -> {HttpResponse(200, TextBody("OK")), ConnectionExc}
    [] kind = "steady" -> {HttpResponse(200, JsonBody(Dict([status |-> Str("UP")])))}
    [] kind = "plain" -> PlainResponses
    [] kind = "any" -> AllResponses

\* requests.get(url, timeout=timeout): what the call can come back with
Respond(url) == IF url = "" THEN {MissingSchemaExc} ELSE Answers(world.net[url])

\* worlds of one record whose metadata server may answer anything: the
\* prober, the extractor and the service checker on all their inputs
ProbeWorlds ==
  {World(file, [url \in Urls |-> IF url = "http://a/health" THEN "plain" ELSE "any"]) :
     file \in {NoFile, CsvFile(<<RowA>>), CsvFile(<<RowB>>)}}

\* worlds with more records than the pool has workers
PoolWorlds ==
  {World(file, AllServers("steady")) :
     file \in {NoFile, CsvFile(Copies(RowA, max_workers + PoolExtra))}}

\* ------------------------------------------------------------------- Init
InitIn(worlds) ==
  /\ world \in worlds
  /\ pc = "start"
  /\ webapps = <<>>
  /\ submitted = 0
  /\ work_queue = <<>>
  /\ running = EmptyBag
  /\ finished = EmptyBag
  /\ finished_futures = <<>>
  /\ results = <<>>
  /\ report = <<>>
  /\ get_calls = 0
  /\ completed = <<>>
  /\ pre_completed = 0
  /\ last_get = <<>>

Init == InitIn(SweepWorlds)

\* ---------------------------------------------------------------- actions
\* webapps = read_csv_data(); if not webapps: return the empty report
Begin ==
  /\ pc = "start"
  /\ webapps' = read_csv_data(world.file)
  /\ IF webapps' = <<>>
     THEN pc' = "done" /\ report' = EmptyReport
     ELSE pc' = "submit" /\ report' = report
  /\ UNCHANGED <<world, submitted, work_queue, running, finished, finished_futures,
                 results, get_calls, completed, pre_completed,
                 last_get>>

\* executor.submit(check_single_webapp, webapp) for the next webapp
Submit ==
  /\ pc = "submit"
  /\ submitted < Len(webapps)
  /\ work_queue' = Append(work_queue, webapps[submitted + 1])
  /\ submitted' = submitted + 1
  /\ pc' = IF submitted' = Len(webapps) THEN "as_completed" ELSE "submit"
  /\ UNCHANGED <<world, webapps, running, finished, finished_futures, results, report,
                 get_calls, completed, pre_completed,
                 last_get>>

\* as_completed(future_to_webapp): the futures already finished are set aside
\* to be yielded first, the others are waited for
EnterAsCompleted ==
  /\ pc = "as_completed"
  /\ pc' = "collect"
  /\ pre_completed' = BagCardinality(finished)
  /\ UNCHANGED <<world, webapps, submitted, work_queue, running, finished,
                 finished_futures, results, report, get_calls, completed,
                 last_get>>

\* as_completed yields a future that had finished before it was entered, in
\* the iteration order of a set of futures: any of them
YieldFinished ==
  /\ pc = "collect"
  /\ \E future \in BagToSet(finished) :
       /\ results' = Collected(results, future)
       /\ finished' = finished (-) One(future)
  /\ UNCHANGED <<world, pc, webapps, submitted, work_queue, running, finished_futures,
                 report, get_calls, completed, pre_completed,
                 last_get>>

\* as_completed yields the oldest future of the waiter's list
YieldWaited ==
  /\ pc = "collect"
  /\ finished = EmptyBag
  /\ finished_futures # <<>>
  /\ results' = Collected(results, PopWaited(finished_futures).future)
  /\ finished_futures' = PopWaited(finished_futures).rest
  /\ UNCHANGED <<world, pc, webapps, submitted, work_queue, running, finished,
                 report, get_calls, completed, pre_completed,
                 last_get>>

\* every future was yielded: the executor shuts down and the report is returned
Return ==
  /\ pc = "collect"
  /\ NothingPending
  /\ report' = SweepReport(results, world.now)
  /\ pc' = "done"
  /\ UNCHANGED <<world, webapps, submitted, work_queue, running, finished,
                 finished_futures, results, get_calls, completed, pre_completed,
                 last_get>>

\* a free worker takes the oldest queued task and issues its health GET
StartTask ==
  /\ work_queue # <<>>
  /\ WorkerFree(running)
  /\ running' = running (+) One(BeginCheck(Head(work_queue)))
  /\ work_queue' = Tail(work_queue)
  /\ get_calls' = get_calls + 1
  /\ UNCHANGED <<world, pc, webapps, submitted, finished, finished_futures, results,
                 report, completed, pre_completed,
                 last_get>>

\* the health GET of a task comes back and its info GET is issued
HealthReturns ==
  /\ \E task \in BagToSet(running) :
       /\ task.stage = "health"
       /\ \E resp \in Respond(task.webapp.healthUrl) :
            /\ running' = (running (-) One(task)) (+) One(AfterHealth(task, resp))
            /\ last_get' = ProbedBy(task, task.webapp.healthUrl, resp)
  /\ get_calls' = get_calls + 1
  /\ UNCHANGED <<world, pc, webapps, submitted, work_queue, finished, finished_futures,
                 results, report, completed, pre_completed>>

\* the info GET of a task comes back, the task ends and its future is finished
InfoReturns ==
  /\ \E task \in BagToSet(running) :
       /\ task.stage = "info"
       /\ \E resp \in Respond(task.webapp.infoUrl) :
            LET future == AfterInfo(task, resp)
            IN /\ running' = running (-) One(task)
               /\ last_get' = ProbedBy(task, task.webapp.infoUrl, resp)
               /\ completed' = Append(completed, future)
               /\ IF pc = "collect"
                  THEN /\ finished_futures' = Append(finished_futures, future)
                       /\ finished' = finished
                  ELSE /\ finished' = finished (+) One(future)
                       /\ finished_futures' = finished_futures
  /\ UNCHANGED <<world, pc, webapps, submitted, work_queue, results, report, get_calls,
                 pre_completed>>

Next ==
  \/ Begin
  \/ Submit
  \/ EnterAsCompleted
  \/ YieldFinished
  \/ YieldWaited
  \/ Return
  \/ StartTask
  \/ HealthReturns
  \/ InfoReturns

Spec == Init /\ [][Next]_vars

\* the same program in the worlds of one record and every answer
InitProbe == InitIn(ProbeWorlds)
SpecProbe == InitProbe /\ [][Next]_vars

\* the same program with a roster larger than the pool
InitPool == InitIn(PoolWorlds)
SpecPool == InitPool /\ [][Next]_vars

\* the threads are scheduled and every GET comes back (each is bounded by its
\* timeout): a step that can be taken is eventually taken
InitFair == InitIn({w \in SweepWorlds : Len(w.file.rows) <= MaxFairRoster})
FairSpec == InitFair /\ [][Next]_vars /\ WF_vars(Next)

\* ================================================================== claims
\* the record fields of a webapp
RecordFields == {"webname", "env", "healthUrl", "infoUrl", "port", "supportEmail"}
\* the record a result entry carries
RecordOf(result) == [f \in RecordFields |-> result[f]]
\* the elements of a sequence as a bag
SeqToBag(q) == [x \in {q[i] : i \in DOMAIN q} |-> Cardinality({i \in DOMAIN q : q[i] = x})]
\* a result entry that the except branch built
IsFallback(result) == "health_status_code" \notin DOMAIN result
\* the webapps of the futures of a bag, as a bag
WebappsIn(bag) ==
  LET recs == {x.webapp : x \in BagToSet(bag)}
  IN [w \in recs |-> BagCardinality([x \in {y \in BagToSet(bag) : y.webapp = w} |-> bag[x]])]

\* C1: a sweep of a roster of N >= 1 records returns a report with
\* success = true and exactly N result entries, whatever the probes came
\* back with and whichever tasks faulted.
C1_ExactlyNResults ==
  (pc = "done" /\ Len(webapps) >= 1) =>
    (report.success = TRUE /\ Len(report.results) = Len(webapps))

\* C1 witness: a returned sweep of two or more records with a faulted task
\* and a task whose metadata probe failed
C1_Witness ==
  /\ pc = "done"
  /\ Len(webapps) >= 2
  /\ \E i, j \in DOMAIN report.results :
       /\ IsFallback(report.results[i])
       /\ ~IsFallback(report.results[j])
       /\ report.results[j].info_status = FALSE

\* C2: at every moment each submitted record is in exactly one place (queued,
\* executing, finished and not yet yielded, or in the results), so that one
\* task runs per record, equal records included, and the returned results
\* carry, as a multiset of records, exactly the roster.
C2_EachRecordOnce ==
  /\ SeqToBag(work_queue) (+) WebappsIn(running) (+) WebappsIn(finished)
       (+) SeqToBag([i \in DOMAIN finished_futures |-> finished_futures[i].webapp])
       (+) SeqToBag([i \in DOMAIN results |-> RecordOf(results[i])])
     = SeqToBag(SubSeq(webapps, 1, submitted))
  /\ pc = "done" =>
       /\ submitted = Len(webapps)
       /\ SeqToBag([i \in DOMAIN report.results |-> RecordOf(report.results[i])])
            = SeqToBag(webapps)
       /\ SeqToBag([i \in DOMAIN completed |-> completed[i].webapp]) = SeqToBag(webapps)

\* C2 witness: a returned sweep of a roster with two equal records and a
\* different third one, in which the task of a record other than the first
\* faulted
C2_Witness ==
  /\ pc = "done"
  /\ Len(webapps) = 3
  /\ webapps[1] = webapps[2]
  /\ webapps[3] # webapps[1]
  /\ \E i \in DOMAIN report.results :
       /\ IsFallback(report.results[i])
       /\ RecordOf(report.results[i]) # webapps[1]

\* C3: with an empty roster the handler returns at once exactly
\* {success: false, error: "No webapp data found", results: []}: no task was
\* submitted, no GET was issued and the report has no timestamp.
C3_EmptyRoster ==
  (pc # "start" /\ webapps = <<>>) =>
    /\ pc = "done"
    /\ report = [success |-> FALSE, error |-> "No webapp data found", results |-> <<>>]
    /\ "timestamp" \notin DOMAIN report
    /\ submitted = 0
    /\ work_queue = <<>>
    /\ running = EmptyBag
    /\ completed = <<>>
    /\ get_calls = 0

\* C3 witness: the handler returned for a data.csv that exists and has no rows
C3_Witness ==
  /\ pc = "done"
  /\ world.file.exists
  /\ webapps = <<>>
  /\ report.success = FALSE

\* C4: never more than 10 tasks execute, hence never more than 10 GETs are
\* in flight, and every submitted task that is neither executing nor
\* finished is waiting in the queue.
C4_PoolCeiling ==
  /\ BagCardinality(running) <= 10
  /\ get_calls - Len(completed) * 2
       - BagCardinality([t \in {u \in BagToSet(running) : u.stage = "info"} |-> running[t]]) <= 10
  /\ Len(work_queue) = submitted - BagCardinality(running) - Len(completed)

\* C4 witness: ten tasks execute while an eleventh waits in the queue
C4_Witness ==
  /\ Len(webapps) > 10
  /\ BagCardinality(running) = 10
  /\ work_queue # <<>>

\* the entry that a finished future is to have in the results: the dict its
\* task returned or, for a faulted task, its own record with the error fields
Entry(future) ==
  IF future.exception = None
  THEN future.result
  ELSE [health_status |-> FALSE,
        health_error |-> Str("Check failed: " \o future.exception.s),
        info_status |-> FALSE,
        info_error |-> Str("Check failed: " \o future.exception.s),
        git_info |-> <<>>] @@ future.webapp
Entries(futures) == [i \in DOMAIN futures |-> Entry(futures[i])]
Min(a, b) == IF a < b THEN a ELSE b

\* C5 as stated: the results are in the order in which the tasks completed,
\* in every interleaving.
C5_CompletionOrder ==
  \A i \in DOMAIN results : results[i] = Entry(completed[i])

\* C5 amended: the results of the tasks that complete after as_completed was
\* entered are in completion order and follow the results of all the tasks
\* that had completed before; these come first, in any order.
C5_CompletionOrderOnceCollecting ==
  /\ \A i \in DOMAIN results : i > pre_completed => results[i] = Entry(completed[i])
  /\ SeqToBag(SubSeq(results, 1, Min(pre_completed, Len(results))))
       \sqsubseteq SeqToBag(Entries(SubSeq(completed, 1, pre_completed)))

\* C5 witness: a returned sweep in which one task had completed before
\* as_completed was entered, two with different results completed after it,
\* and the results are not in roster order
C5_Witness ==
  /\ pc = "done"
  /\ pre_completed = 1
  /\ Len(results) = 3
  /\ results[2] # results[3]
  /\ RecordOf(results[1]) # webapps[1]

\* C6: a faulted task neither stops the sweep nor escapes it: its entry is
\* its own record with health_status = info_status = false, both errors
\* "Check failed: <message>" and an empty git_info, and the entries of the
\* other tasks are the dicts those tasks returned.
C6_FaultBecomesFallback ==
  /\ SeqToBag(results) \sqsubseteq SeqToBag(Entries(completed))
  /\ (pc = "done" /\ Len(webapps) >= 1) =>
       /\ report.success = TRUE
       /\ SeqToBag(report.results) = SeqToBag(Entries(completed))

\* C6 witness: a returned sweep with the entry of a task that raised
\* AttributeError in the extractor next to the entry of a task that got 404
C6_Witness ==
  /\ pc = "done"
  /\ \E i, j \in DOMAIN report.results :
       /\ IsFallback(report.results[i])
       /\ report.results[i].health_error = Str("Check failed: 'str' object has no attribute 'get'")
       /\ report.results[i].info_error = report.results[i].health_error
       /\ ~IsFallback(report.results[j])
       /\ report.results[j].info_status_code = Num(404)

\* C7: a sweep of a non-empty roster returns, given that every GET comes
\* back and the threads are scheduled, and when it has returned no task is
\* queued or executing and every task has completed.
C7_RunsToCompletion ==
  /\ (pc = "submit") ~> (pc = "done")
  /\ [](pc = "done" =>
          /\ work_queue = <<>>
          /\ running = EmptyBag
          /\ Len(completed) = Len(webapps))

\* C7 witness: a sweep of two or more records has returned, all its GETs issued
C7_Witness ==
  /\ pc = "done"
  /\ Len(webapps) >= 2
  /\ get_calls = 2 * Len(webapps)

\* C8: the report has success = true exactly when data.csv gave at least one
\* record, whatever failed; it has an error only with success = false and a
\* timestamp only with success = true.
C8_SuccessIffNonEmpty ==
  /\ pc = "done" =>
       /\ report.success = (world.file.exists /\ Len(world.file.rows) >= 1)
       /\ "error" \in DOMAIN report => report.success = FALSE
       /\ "timestamp" \in DOMAIN report => report.success = TRUE
  /\ pc # "done" => DOMAIN report = {}

\* C8 witness: a report with success = true in which no probe succeeded and
\* one task faulted
C8_Witness ==
  /\ pc = "done"
  /\ report.success = TRUE
  /\ \A i \in DOMAIN report.results :
       /\ report.results[i].health_status = FALSE
       /\ report.results[i].info_status = FALSE
  /\ \E i, j \in DOMAIN report.results :
       IsFallback(report.results[i]) /\ ~IsFallback(report.results[j])

\* what a call of check_endpoint is to return for what its GET came back
\* with, the empty URL apart
ClassifiedAs(resp, outcome) ==
  /\ DOMAIN outcome = {"status_code", "success", "data", "error"}
  /\ (resp.k = "response" /\ resp.status_code = 200) =>
       /\ outcome.success = TRUE
       /\ outcome.error = None
       /\ outcome.status_code = Num(200)
       /\ outcome.data = IF resp.body.valid THEN resp.body.value ELSE Str(resp.body.text)
  /\ (resp.k = "response" /\ resp.status_code # 200) =>
       /\ outcome.success = FALSE
       /\ outcome.error = Str("HTTP " \o ToString(resp.status_code))
       /\ outcome.status_code = Num(resp.status_code)
       /\ outcome.data = None
  /\ resp.k = "Timeout" =>
       outcome = [status_code |-> None, success |-> FALSE, data |-> None, error |-> Str("Timeout")]
  /\ resp.k = "ConnectionError" =>
       outcome = [status_code |-> None, success |-> FALSE, data |-> None,
                  error |-> Str("Connection Error")]

\* C9 as stated: check_endpoint returns an outcome for whatever the GET came
\* back with: 200 is a success with the body decoded or kept as text, another
\* status is "HTTP <code>", a timeout is "Timeout", a connection failure and
\* an empty or malformed URL are "Connection Error", any other fault is its
\* message.
C9_ProberClassifies ==
  last_get # <<>> =>
    /\ ClassifiedAs(last_get.resp, last_get.outcome)
    /\ last_get.url = "" =>
         last_get.outcome = [status_code |-> None, success |-> FALSE, data |-> None,
                             error |-> Str("Connection Error")]
    /\ (last_get.resp.k = "Exception" /\ last_get.url # "") =>
         last_get.outcome = [status_code |-> None, success |-> FALSE, data |-> None,
                             error |-> Str(last_get.resp.msg)]

\* C9 amended: as stated, except that an empty URL is no connection failure:
\* requests refuses it with MissingSchema, one of the other faults, and the
\* outcome carries that fault's message.
C9_ProberClassifiesByException ==
  last_get # <<>> =>
    /\ ClassifiedAs(last_get.resp, last_get.outcome)
    /\ last_get.url = "" =>
         /\ last_get.resp.k = "Exception"
         /\ last_get.outcome.error # Str("Connection Error")
    /\ last_get.resp.k = "Exception" =>
         last_get.outcome = [status_code |-> None, success |-> FALSE, data |-> None,
                             error |-> Str(last_get.resp.msg)]

\* C9 witness: the probe of an empty health URL has returned the message of
\* MissingSchema
C9_Witness ==
  /\ last_get # <<>>
  /\ last_get.url = ""
  /\ last_get.outcome.success = FALSE
  /\ last_get.outcome.status_code = None
  /\ last_get.outcome.error = Str("Invalid URL '': No scheme supplied. Perhaps you meant https://?")

\* C10: extract_git_info raises for no body, whatever the shapes of git,
\* git.commit, git.commit.id and build.
C10_ExtractorNeverRaises ==
  last_get # <<>> => ~extract_git_info(last_get.outcome.data).raised

\* the one service of a one-record roster has been checked: last_get is then
\* its metadata probe and completed[1] its future
CheckedOne == Len(webapps) = 1 /\ Len(completed) = 1
\* the first n characters of a string
Prefix(str, n) == SubSeq(str, 1, Min(n, Len(str)))

\* C11: for a body that is a mapping with a mapping git, branch is git.branch
\* (default "N/A"), commit is the first 8 characters of a non-empty
\* git.commit.id and "N/A" when the commit mapping or the id is absent or the
\* id is the empty string; for a mapping build, java_version is build.version
\* (default "N/A").
C11_ExtractsFields ==
  (CheckedOne /\ completed[1].exception = None /\ last_get.outcome.success
     /\ IsDict(last_get.outcome.data)) =>
    LET body == last_get.outcome.data
        git == Get(body, "git", None)
        build == Get(body, "build", None)
        commit == IF IsDict(git) THEN Get(git, "commit", None) ELSE None
        git_info == completed[1].result.git_info
    IN /\ IsDict(git) =>
            /\ git_info.branch = Get(git, "branch", Str("N/A"))
            /\ "commit" \notin DOMAIN git.m => git_info.commit = Str("N/A")
            /\ (IsDict(commit) /\ "id" \notin DOMAIN commit.m) => git_info.commit = Str("N/A")
            /\ (IsDict(commit) /\ "id" \in DOMAIN commit.m) =>
                 /\ (commit.m.id.t = "str" /\ commit.m.id.s # "") =>
                      git_info.commit = Str(Prefix(commit.m.id.s, 8))
                 /\ commit.m.id = Str("") => git_info.commit = Str("N/A")
       /\ IsDict(build) => git_info.java_version = Get(build, "version", Str("N/A"))

\* the bodies that Python takes for false: None, False, 0, "" and {}
Falsy(v) == v \in {None, Bool(FALSE), Num(0), Str(""), EmptyDict}

\* C12 as stated: after a successful metadata probe with a body that is not
\* null (an empty mapping, an empty text, 0 and false included) git_info is
\* what the extractor returns for the body, and otherwise it is empty.
C12_ExtractsWhenNotNull ==
  (CheckedOne /\ completed[1].exception = None) =>
    LET outcome == last_get.outcome
        git_info == completed[1].result.git_info
    IN IF outcome.success /\ outcome.data # None
       THEN git_info = extract_git_info(outcome.data).value
       ELSE DOMAIN git_info = {}

\* C12 amended: the extractor is called exactly after a successful metadata
\* probe with a body that Python takes for true; what it returns is attached
\* as git_info and what it raises leaves the service checker; after a failed
\* probe and for the bodies null, {}, "", 0 and false git_info is empty and
\* the extractor is not called.
C12_ExtractsWhenTruthy ==
  CheckedOne =>
    LET outcome == last_get.outcome
        future == completed[1]
        extracted == extract_git_info(outcome.data)
    IN IF outcome.success /\ ~Falsy(outcome.data)
       THEN IF extracted.raised
            THEN future.exception = Str(extracted.msg)
            ELSE future.exception = None /\ future.result.git_info = extracted.value
       ELSE future.exception = None /\ DOMAIN future.result.git_info = {}

\* C12 witness: a successful metadata probe whose body is the empty mapping
\* was given an empty git_info, not the extractor's three defaults
C12_Witness ==
  /\ CheckedOne
  /\ last_get.outcome.success
  /\ last_get.outcome.data = EmptyDict
  /\ completed[1].exception = None
  /\ DOMAIN completed[1].result.git_info = {}
  /\ DOMAIN extract_git_info(EmptyDict).value = {"branch", "commit", "java_version"}

\* the fields of a ServiceCheckResult that the checks add to the record
CheckFields ==
  {"health_status", "health_error", "health_status_code",
   "info_status", "info_error", "info_status_code", "git_info"}

\* C13 as stated: every entry of results, produced normally or by the
\* task-fault fallback, has the six record fields and the seven check fields,
\* and its two status-code fields hold null or an integer.
C13_FullShape ==
  \A i \in 1..Len(results) :
    /\ DOMAIN results[i] = RecordFields \cup CheckFields
    /\ results[i].health_status_code.t \in {"null", "num"}
    /\ results[i].info_status_code.t \in {"null", "num"}

\* the GET came back with HTTP 200 and the JSON document null
IsJsonNull200(resp) ==
  resp.k = "response" /\ resp.status_code = 200 /\ resp.body.valid /\ resp.body.value = None

\* C14 as stated: every outcome of check_endpoint is either (success, body
\* present, error null) or (failure, error present, body null); body and
\* error are never both present and never both absent.
C14_BodyXorError ==
  last_get # <<>> =>
    LET outcome == last_get.outcome
    IN \/ outcome.success /\ outcome.data # None /\ outcome.error = None
       \/ ~outcome.success /\ outcome.error # None /\ outcome.data = None

\* C14 amended: body and error are never both present; success comes with a
\* null error and failure with a null body and an error; body and error are
\* both null exactly for an HTTP 200 whose JSON document is null, which is a
\* success. An HTTP 200 with an empty text has the empty text as its body.
C14_BodyExcludesError ==
  last_get # <<>> =>
    LET outcome == last_get.outcome
    IN /\ ~(outcome.data # None /\ outcome.error # None)
       /\ outcome.success => outcome.error = None
       /\ ~outcome.success => outcome.data = None /\ outcome.error # None
       /\ (outcome.data = None /\ outcome.error = None) <=> IsJsonNull200(last_get.resp)
       /\ IsJsonNull200(last_get.resp) => outcome.success

\* C14 witness: a probe answered with HTTP 200 and the document null
\* succeeded with neither a body nor an error
C14_Witness ==
  /\ last_get # <<>>
  /\ IsJsonNull200(last_get.resp)
  /\ last_get.outcome.success
  /\ last_get.outcome.data = None
  /\ last_get.outcome.error = None

\* the three fields that a probe outcome fills in a result, by prefix
ProbeFields(result, prefix) ==
  [success |-> result[prefix \o "_status"],
   error |-> result[prefix \o "_error"],
   status_code |-> result[prefix \o "_status_code"]]
\* the same three of a probe outcome
OutcomeFields(outcome) ==
  [success |-> outcome.success, error |-> outcome.error, status_code |-> outcome.status_code]

\* C15: in a normally produced result the health fields are the success,
\* error and status code of the outcome of the health probe and the info
\* fields those of the info probe, and the info probe leaves the health
\* fields as they were: a health 200 with {"status":"UP"} gives true, 200,
\* null and a health timeout gives false, "Timeout", null.
C15_FieldsVerbatim ==
  /\ \A task \in BagToSet(running) :
       task.stage = "info" =>
         /\ last_get.url = task.webapp.healthUrl
         /\ ProbeFields(task.result, "health") = OutcomeFields(last_get.outcome)
         /\ last_get.resp = [k |-> "response", status_code |-> 200, msg |-> "",
                             body |-> [valid |-> TRUE, text |-> "<json document>",
                                       value |-> Dict([status |-> Str("UP")])]] =>
              ProbeFields(task.result, "health") =
                [success |-> TRUE, error |-> None, status_code |-> Num(200)]
         /\ last_get.resp.k = "Timeout" =>
              ProbeFields(task.result, "health") =
                [success |-> FALSE, error |-> Str("Timeout"), status_code |-> None]
  /\ (CheckedOne /\ completed[1].exception = None) =>
       /\ last_get.url = completed[1].webapp.infoUrl
       /\ ProbeFields(completed[1].result, "info") = OutcomeFields(last_get.outcome)
       /\ ProbeFields(completed[1].result, "health") = ProbeFields(last_get.result, "health")

\* C15 witness: a result whose health probe timed out and whose info probe
\* succeeded keeps the two outcomes apart
C15_Witness ==
  /\ CheckedOne
  /\ completed[1].exception = None
  /\ ProbeFields(completed[1].result, "health") =
       [success |-> FALSE, error |-> Str("Timeout"), status_code |-> None]
  /\ ProbeFields(completed[1].result, "info") =
       [success |-> TRUE, error |-> None, status_code |-> Num(200)]

\* how many running tasks wait for the GET of a stage
Waiting(stage) ==
  LET tasks == {task \in BagToSet(running) : task.stage = stage}
  IN BagCardinality([task \in tasks |-> running[task]])

HealthFields == {"health_status", "health_error", "health_status_code"}

\* C16: a task has one GET in flight at a time, the health GET first: while
\* it waits for the health GET its result has no probe field, and while it
\* waits for the info GET it has the health fields of a health probe that
\* returned, whatever its outcome, and no info field; every task that got its
\* health answer issued the info GET, so the GETs issued are one for each
\* task waiting for health and two for each task waiting for info or ended.
C16_ProbesInSequence ==
  /\ \A task \in BagToSet(running) :
       /\ task.stage \in {"health", "info"}
       /\ task.stage = "health" => DOMAIN task.result = RecordFields
       /\ task.stage = "info" =>
            /\ DOMAIN task.result = RecordFields \cup HealthFields
            /\ last_get.url = task.webapp.healthUrl
            /\ task.result.health_status = last_get.outcome.success
  /\ get_calls = Waiting("health") + 2 * Waiting("info") + 2 * Len(completed)
  /\ Waiting("health") + Waiting("info") = BagCardinality(running)

\* C16 witness: the info GET of a task is in flight after its health probe failed
C16_Witness ==
  \E task \in BagToSet(running) :
    /\ task.stage = "info"
    /\ task.result.health_status = FALSE
    /\ get_calls = 2
    /\ completed = <<>>

\* the records of the roster
Roster == {webapps[i] : i \in DOMAIN webapps}

\* C17: the roster stays as it was read; a task carries a record of the
\* roster untouched and writes only to its own result, whose record fields
\* stay those of its record; results is empty until the collection loop runs
\* and from then on, in every interleaving of task completions with the loop,
\* each finished future is either still pending or has exactly one entry.
C17_NoSharedState ==
  /\ pc # "start" => webapps = read_csv_data(world.file)
  /\ \A task \in BagToSet(running) :
       task.webapp \in Roster /\ RecordOf(task.result) = task.webapp
  /\ \A i \in DOMAIN completed :
       /\ completed[i].webapp \in Roster
       /\ completed[i].exception = None => RecordOf(completed[i].result) = completed[i].webapp
  /\ pc \in {"start", "submit", "as_completed"} => results = <<>>
  /\ Len(results) + BagCardinality(finished) + Len(finished_futures) = Len(completed)
  /\ pc = "done" => Len(results) = Len(completed) /\ report.results = results

\* C17 witness: a returned sweep of two or more records in which a task
\* completed before the collection loop and another during it
C17_Witness ==
  /\ pc = "done"
  /\ Len(webapps) >= 2
  /\ pre_completed >= 1
  /\ pre_completed < Len(completed)
  /\ Len(results) = Len(webapps)
  /\ webapps = read_csv_data(world.file)

\* C18: git_info of a result is the empty mapping whenever the metadata probe
\* failed or its body is not a mapping (a text such as "OK", a number, a
\* boolean, null), and so is the git_info of a fallback entry: an entry with
\* a non-empty git_info was produced normally, has info_status true and had a
\* mapping as metadata body.
C18_GitInfoEmpty ==
  /\ (CheckedOne /\ completed[1].exception = None) =>
       LET outcome == last_get.outcome
           result == completed[1].result
       IN /\ (~outcome.success \/ outcome.data.t # "map") => DOMAIN result.git_info = {}
          /\ DOMAIN result.git_info # {} =>
               result.info_status = TRUE /\ outcome.data.t = "map"
  /\ \A i \in DOMAIN results :
       DOMAIN results[i].git_info # {} =>
         /\ "info_status_code" \in DOMAIN results[i]
         /\ results[i].info_status = TRUE

\* C18 witness: a metadata probe answered with HTTP 200 and the text "OK"
\* succeeded and the entry in the results has an empty git_info
C18_Witness ==
  /\ CheckedOne
  /\ last_get.outcome.success
  /\ last_get.outcome.data = Str("OK")
  /\ Len(results) = 1
  /\ results[1].info_status = TRUE
  /\ DOMAIN results[1].git_info = {}

\* C19: when a task faults after its health probe returned, whatever that
\* probe found is gone: the entry of the service has health_status false and
\* "Check failed: <the fault>" as health_error and as info_error, also when
\* the health probe had succeeded with HTTP 200; an entry with health_status
\* true is an entry of a task that returned without a fault.
C19_FaultDiscardsOutcomes ==
  (CheckedOne /\ Len(results) = 1) =>
    /\ completed[1].exception # None =>
         /\ last_get.url = completed[1].webapp.infoUrl
         /\ results[1].health_status = FALSE
         /\ results[1].info_status = FALSE
         /\ results[1].health_error = Str("Check failed: " \o completed[1].exception.s)
         /\ results[1].info_error = results[1].health_error
         /\ {"health_status_code", "info_status_code"} \cap DOMAIN results[1] = {}
    /\ results[1].health_status = TRUE =>
         /\ completed[1].exception = None
         /\ results[1] = completed[1].result
         /\ "git_info" \in DOMAIN results[1]

\* C19 witness: the health probe had succeeded with HTTP 200, the extractor
\* raised on the metadata body and the entry says health_status false
C19_Witness ==
  /\ CheckedOne
  /\ Len(results) = 1
  /\ completed[1].exception # None
  /\ last_get.result.health_status = TRUE
  /\ last_get.result.health_status_code = Num(200)
  /\ last_get.outcome.success
  /\ results[1].health_status = FALSE
  /\ Prefix(results[1].health_error.s, 14) = "Check failed: "

\* the flag, error and status code of a probe are consistent
ConsistentProbe(probe) ==
  /\ probe.success <=> (probe.status_code = Num(200) /\ probe.error = None)
  /\ probe.status_code \notin {None, Num(200)} =>
       probe.error = Str("HTTP " \o ToString(probe.status_code.n))
  /\ probe.status_code = None => (~probe.success /\ probe.error # None)

\* C20: in every result that a task builds, for the health probe and for the
\* info probe, the success flag is true exactly when the status code is 200
\* and the error is null; a status code other than 200 comes with the error
\* "HTTP <code>", and a null status code with a failure and an error.
C20_FlagCodeError ==
  /\ \A task \in BagToSet(running) :
       task.stage = "info" => ConsistentProbe(ProbeFields(task.result, "health"))
  /\ \A i \in DOMAIN completed :
       completed[i].exception = None =>
         /\ ConsistentProbe(ProbeFields(completed[i].result, "health"))
         /\ ConsistentProbe(ProbeFields(completed[i].result, "info"))
  /\ \A i \in DOMAIN results :
       "health_status_code" \in DOMAIN results[i] =>
         /\ ConsistentProbe(ProbeFields(results[i], "health"))
         /\ ConsistentProbe(ProbeFields(results[i], "info"))

\* C20 witness: an entry whose health probe got HTTP 204 and whose info
\* probe timed out
C20_Witness ==
  /\ Len(results) = 1
  /\ "health_status_code" \in DOMAIN results[1]
  /\ ProbeFields(results[1], "health") =
       [success |-> FALSE, error |-> Str("HTTP 204"), status_code |-> Num(204)]
  /\ ProbeFields(results[1], "info") =
       [success |-> FALSE, error |-> Str("Timeout"), status_code |-> None]

====
